---------------------------- MODULE Spec2Model ----------------------------
(***************************************************************************)
(* A model of the drug-name resolution engine, the interaction aggregator  *)
(* and the profile tool of src/src/drug_tools.py (Spec, SpecAgg, SpecProf),*)
(* of the critique solver of src/src/contribution.py (SpecCritique) and of *)
(* active_at_date of src/src/solvers.py (SpecDates).                       *)
(*                                                                         *)
(* Strings are sequences of one-character strings, so that lower(),        *)
(* strip(), split(", ") and " with ".join() are computed, not assumed.     *)
(* A table (a Python dict, which keeps insertion order) is a sequence of   *)
(* [key, value] records with pairwise distinct keys.                       *)
(* rapidfuzz is a library outside the repository: the score it gives a     *)
(* (query, key) pair is an input (the variable fuzz), fixed for a run.     *)
(***************************************************************************)
EXTENDS Integers, Sequences, FiniteSets, TLC

VARIABLES
    synonyms,          \* brand name -> ", "-separated ingredient names
    bnf_profiles,      \* name -> profile slug
    bnf_interactions,  \* name -> interaction slug
    fuzz,              \* the scorer's answers on the pairs it is asked about
    hash_order,        \* the iteration order of a set of slugs (str hashing)
    last,              \* the latest resolver call and its outcome
    prev,              \* the call before it
    interaction_files, \* slug -> the JSON file of its interaction record, if any
    tool,              \* the latest call of the interactions tool and its outcome
    profile_files,     \* slug -> the JSON file of its drug profile, if any
    profile_tool,      \* the latest call of the profile tool and its outcome
    profile_prev,      \* the call before it
    messages,          \* state.messages of the sample being solved
    output,            \* state.output.completion
    critique_run,      \* where the critique solver is, and the calls it has made
    prescription_profile, \* the prescription events of a patient
    active,            \* the latest call of active_at_date and its result
    format_call,       \* the latest call of format_interactions and its outcome
    medical_data,      \* patient.medical_data
    prompt_run         \* the run of process_prescription_information, if any

profileVars == <<profile_files, profile_tool, profile_prev>>
drugToolVars == <<synonyms, bnf_profiles, bnf_interactions, fuzz, hash_order, last, prev,
                  interaction_files, tool, profileVars>>
critiqueVars == <<messages, output, critique_run>>
dateVars == <<prescription_profile, active>>
promptVars == <<format_call, medical_data, prompt_run>>

vars == <<drugToolVars, critiqueVars, dateVars, promptVars>>

---------------------------------------------------------------------------
(* str methods *)

Whitespace == {" "}

LowerChar(c) ==
    CASE c = "A" -> "a"
      [] c = "B" -> "b"
      [] c = "X" -> "x"
      [] c = "Z" -> "z"
      [] OTHER -> c

\* str.lower()
Lower(s) == [i \in 1..Len(s) |-> LowerChar(s[i])]

RECURSIVE LStrip(_)
LStrip(s) == IF s # <<>> /\ Head(s) \in Whitespace THEN LStrip(Tail(s)) ELSE s

RECURSIVE RStrip(_)
RStrip(s) ==
    IF s # <<>> /\ s[Len(s)] \in Whitespace
    THEN RStrip(SubSeq(s, 1, Len(s) - 1))
    ELSE s

\* str.strip()
Strip(s) == RStrip(LStrip(s))

\* name.lower().strip()
Normalize(s) == Strip(Lower(s))

StartsWith(s, sep) == Len(s) >= Len(sep) /\ SubSeq(s, 1, Len(sep)) = sep

\* str.split(sep): cut at every occurrence of sep, left to right; cur is the
\* piece being read.
RECURSIVE SplitFrom(_, _, _)
SplitFrom(s, sep, cur) ==
    IF s = <<>> THEN <<cur>>
    ELSE IF StartsWith(s, sep)
         THEN <<cur>> \o SplitFrom(SubSeq(s, Len(sep) + 1, Len(s)), sep, <<>>)
         ELSE SplitFrom(Tail(s), sep, Append(cur, Head(s)))

Split(s, sep) == SplitFrom(s, sep, <<>>)

\* sep.join(parts)
RECURSIVE Join(_, _)
Join(sep, parts) ==
    IF parts = <<>> THEN <<>>
    ELSE IF Len(parts) = 1 THEN parts[1]
         ELSE parts[1] \o sep \o Join(sep, Tail(parts))

CommaSpace == <<",", " ">>
WithSep == <<" ", "w", "i", "t", "h", " ">>

---------------------------------------------------------------------------
(* dict operations *)

KV(k, v) == [key |-> k, value |-> v]
Keys(t) == [i \in 1..Len(t) |-> t[i].key]
Has(t, k) == \E i \in 1..Len(t) : t[i].key = k
Get(t, k) == t[CHOOSE i \in 1..Len(t) : t[i].key = k].value
Values(t) == {t[i].value : i \in 1..Len(t)}
KeySet(t) == {t[i].key : i \in 1..Len(t)}

---------------------------------------------------------------------------
(* the fuzzy matcher *)

DEFAULT_THRESHOLD == 90

\* The scorer: 0 on an empty string, 100 on identical strings, the input
\* fuzz on the pairs it is given, 0 (nothing in common) elsewhere.
Score(q, k) ==
    IF q = <<>> \/ k = <<>> THEN 0
    ELSE IF q = k THEN 100
    ELSE IF <<q, k>> \in DOMAIN fuzz THEN fuzz[<<q, k>>]
    ELSE 0

None == [found |-> FALSE, key |-> <<>>, score |-> 0]

\* process.extractOne(query, choices): the first choice of the highest score,
\* None when there is no choice.
extractOne(query, choices) ==
    IF choices = <<>> THEN None
    ELSE LET best == CHOOSE i \in 1..Len(choices) :
                        \A j \in 1..Len(choices) :
                            \/ Score(query, choices[j]) < Score(query, choices[i])
                            \/ (Score(query, choices[j]) = Score(query, choices[i]) /\ i <= j)
         IN [found |-> TRUE, key |-> choices[best], score |-> Score(query, choices[best])]

\* What a resolver did, in order: a dict membership test ("in") or a fuzzy
\* search ("extractOne"; stage "combined" for the joined phrase).
Ev(op, table, query, bm, accepted) ==
    [op |-> op, table |-> table, query |-> query, found |-> bm.found,
     key |-> bm.key, score |-> bm.score, accepted |-> accepted]

InEv(table, query, hit) ==
    Ev("in", table, query, [found |-> hit, key |-> IF hit THEN query ELSE <<>>, score |-> 0], hit)

---------------------------------------------------------------------------
(* map_ingredients *)

map_ingredients(drug_name, syn, threshold) ==
    LET name == Strip(Lower(drug_name)) IN
    IF Has(syn, name)
    THEN [isList |-> TRUE, list |-> Split(Get(syn, name), CommaSpace), str |-> <<>>,
          trace |-> <<InEv("synonyms", name, TRUE)>>]
    ELSE LET best_match == extractOne(name, Keys(syn))
             ok == best_match.found /\ best_match.score > threshold
             tr == <<InEv("synonyms", name, FALSE),
                     Ev("extractOne", "synonyms", name, best_match, ok)>>
         IN IF ok
            THEN [isList |-> TRUE, list |-> Split(Get(syn, best_match.key), CommaSpace),
                  str |-> <<>>, trace |-> tr]
            ELSE [isList |-> FALSE, list |-> <<>>, str |-> name, trace |-> tr]

---------------------------------------------------------------------------
(* profile resolution *)

Return(v, tr) == [status |-> "return", value |-> v, trace |-> tr]
Raise(tr) == [status |-> "raise", value |-> <<>>, trace |-> tr]

ingredient_to_bnf_profile(ingredient, profiles, threshold) ==
    LET name == Strip(Lower(ingredient)) IN
    IF Has(profiles, name)
    THEN Return(Get(profiles, name), <<InEv("profiles", name, TRUE)>>)
    ELSE LET best_match == extractOne(name, Keys(profiles))
             ok == best_match.found /\ best_match.score > threshold
             tr == <<InEv("profiles", name, FALSE),
                     Ev("extractOne", "profiles", name, best_match, ok)>>
         IN IF ok THEN Return(Get(profiles, best_match.key), tr) ELSE Raise(tr)

\* The loop of ingredients_to_bnf_profiles: the slug of each ingredient that
\* resolves, the ingredient itself where none does. No lower() or strip() here.
RECURSIVE slug_components(_, _, _)
slug_components(ingredients, profiles, threshold) ==
    IF ingredients = <<>> THEN [parts |-> <<>>, trace |-> <<>>]
    ELSE LET i == Head(ingredients)
             rest == slug_components(Tail(ingredients), profiles, threshold)
             best_match == extractOne(i, Keys(profiles))
             ok == best_match.found /\ best_match.score > threshold
         IN IF Has(profiles, i)
            THEN [parts |-> <<Get(profiles, i)>> \o rest.parts,
                  trace |-> <<InEv("profiles", i, TRUE)>> \o rest.trace]
            ELSE [parts |-> <<IF ok THEN Get(profiles, best_match.key) ELSE i>> \o rest.parts,
                  trace |-> <<InEv("profiles", i, FALSE),
                              Ev("extractOne", "profiles", i, best_match, ok)>> \o rest.trace]

\* Faulty variant: fails as soon as one ingredient does not resolve on its own.
ingredients_to_bnf_profiles_FailFast(ingredients, profiles, threshold) ==
    LET comps == slug_components(ingredients, profiles, threshold)
        combined_search == Join(WithSep, comps.parts)
        best_match == extractOne(combined_search, Keys(profiles))
        tr == comps.trace \o <<Ev("combined", "profiles", combined_search, best_match, best_match.found)>>
    IN IF \E e \in {comps.trace[i] : i \in DOMAIN comps.trace} : e.op = "extractOne" /\ ~e.accepted
       THEN Raise(comps.trace)
       ELSE IF best_match.found THEN Return(Get(profiles, best_match.key), tr) ELSE Raise(tr)

\* Faulty variant: the matched key is returned instead of its slug.
ingredients_to_bnf_profiles_ReturnKey(ingredients, profiles, threshold) ==
    LET comps == slug_components(ingredients, profiles, threshold)
        combined_search == Join(WithSep, comps.parts)
        best_match == extractOne(combined_search, Keys(profiles))
        tr == comps.trace \o <<Ev("combined", "profiles", combined_search, best_match, best_match.found)>>
    IN IF best_match.found THEN Return(best_match.key, tr) ELSE Raise(tr)

ingredients_to_bnf_profiles(ingredients, profiles, threshold) ==
    LET comps == slug_components(ingredients, profiles, threshold)
        combined_search == Join(WithSep, comps.parts)
        best_match == extractOne(combined_search, Keys(profiles))
        tr == comps.trace \o <<Ev("combined", "profiles", combined_search, best_match, best_match.found)>>
    IN IF best_match.found THEN Return(Get(profiles, best_match.key), tr) ELSE Raise(tr)

\* The part of resolve_drug_profile after the direct match.
profile_via_ingredients(name, syn, profiles, threshold) ==
    LET drug_ingredients == map_ingredients(name, syn, threshold)
        sub == IF ~drug_ingredients.isList
               THEN ingredient_to_bnf_profile(drug_ingredients.str, profiles, threshold)
               ELSE IF Len(drug_ingredients.list) = 1
                    THEN ingredient_to_bnf_profile(drug_ingredients.list[1], profiles, threshold)
                    ELSE ingredients_to_bnf_profiles(drug_ingredients.list, profiles, threshold)
    IN [sub EXCEPT !.trace = <<InEv("profiles", name, FALSE)>> \o drug_ingredients.trace \o @]

\* Faulty variant: the synonym table is tried before the direct match.
resolve_drug_profile_SynonymsFirst(drug_name, syn, profiles, threshold) ==
    LET name == Strip(Lower(drug_name)) IN
    IF Has(syn, name) \/ ~Has(profiles, name)
    THEN profile_via_ingredients(name, syn, profiles, threshold)
    ELSE Return(Get(profiles, name), <<InEv("profiles", name, TRUE)>>)

\* Faulty variant: the name is stripped but not lowercased before the direct match.
resolve_drug_profile_NoLower(drug_name, syn, profiles, threshold) ==
    LET name == Strip(drug_name) IN
    IF Has(profiles, name)
    THEN Return(Get(profiles, name), <<InEv("profiles", name, TRUE)>>)
    ELSE profile_via_ingredients(name, syn, profiles, threshold)

resolve_drug_profile(drug_name, syn, profiles, threshold) ==
    LET name == Strip(Lower(drug_name)) IN
    IF Has(profiles, name)
    THEN Return(Get(profiles, name), <<InEv("profiles", name, TRUE)>>)
    ELSE profile_via_ingredients(name, syn, profiles, threshold)

---------------------------------------------------------------------------
(* interaction resolution *)

ingredient_to_bnf_interactions(ingredient, interactions, threshold) ==
    LET name == Strip(Lower(ingredient)) IN
    IF Has(interactions, name)
    THEN Return(Get(interactions, name), <<InEv("interactions", name, TRUE)>>)
    ELSE LET best_match == extractOne(name, Keys(interactions))
             ok == best_match.found /\ best_match.score > threshold
             tr == <<InEv("interactions", name, FALSE),
                     Ev("extractOne", "interactions", name, best_match, ok)>>
         IN IF ok THEN Return(Get(interactions, best_match.key), tr) ELSE Raise(tr)

\* The loop of resolve_drug_interactions: a ToolError of one ingredient is
\* caught and the ingredient skipped.
RECURSIVE all_slugs(_, _, _)
all_slugs(ingredients, interactions, threshold) ==
    IF ingredients = <<>> THEN [slugs |-> <<>>, trace |-> <<>>]
    ELSE LET r == ingredient_to_bnf_interactions(Head(ingredients), interactions, threshold)
             rest == all_slugs(Tail(ingredients), interactions, threshold)
         IN [slugs |-> (IF r.status = "return" THEN <<r.value>> ELSE <<>>) \o rest.slugs,
             trace |-> r.trace \o rest.trace]

Range(s) == {s[i] : i \in 1..Len(s)}

\* list(set(xs)): the distinct elements, in the order the hashing gives.
RECURSIVE Filter(_, _)
Filter(order, S) ==
    IF order = <<>> THEN <<>>
    ELSE (IF Head(order) \in S THEN <<Head(order)>> ELSE <<>>) \o Filter(Tail(order), S)

\* Faulty variant: the list is returned as gathered, duplicates and all.
ListOfSet_NoDedup(xs) == xs

ListOfSet(xs) == Filter(hash_order, Range(xs))

\* Faulty variant: the slugs found are returned without list(set(...)).
resolve_drug_interactions_NoSet(drug_name, syn, interactions, threshold) ==
    LET name == Strip(Lower(drug_name)) IN
    IF Has(interactions, name)
    THEN Return(<<Get(interactions, name)>>, <<InEv("interactions", name, TRUE)>>)
    ELSE LET m == map_ingredients(name, syn, threshold)
             drug_ingredients == IF m.isList THEN m.list ELSE Split(m.str, CommaSpace)
             found == all_slugs(drug_ingredients, interactions, threshold)
         IN Return(found.slugs,
                   <<InEv("interactions", name, FALSE)>> \o m.trace \o found.trace)

resolve_drug_interactions(drug_name, syn, interactions, threshold) ==
    LET name == Strip(Lower(drug_name)) IN
    IF Has(interactions, name)
    THEN Return(<<Get(interactions, name)>>, <<InEv("interactions", name, TRUE)>>)
    ELSE LET m == map_ingredients(name, syn, threshold)
             drug_ingredients == IF m.isList THEN m.list ELSE Split(m.str, CommaSpace)
             found == all_slugs(drug_ingredients, interactions, threshold)
         IN Return(ListOfSet(found.slugs),
                   <<InEv("interactions", name, FALSE)>> \o m.trace \o found.trace)

---------------------------------------------------------------------------
(* the interactions tool: format_interactions, Interaction, InteractionList *)

\* A JSON object is a function from its keys; "k" in obj is k \in DOMAIN obj.
\* JSON null is Null.
Null == "null"
EmptyObject == <<>>

\* Faulty variant: a known key keeps its first value.
Put_KeepFirst(t, k, v) ==
    IF Has(t, k) THEN t ELSE Append(t, KV(k, v))

\* d[k] = v on a dict: a new key goes last, a known key keeps its place.
Put(t, k, v) ==
    IF Has(t, k)
    THEN [i \in 1..Len(t) |-> IF t[i].key = k THEN KV(k, v) ELSE t[i]]
    ELSE Append(t, KV(k, v))

\* The loop of format_interactions over data["bnfInteractant"]["interactions"]:
\* a missing key is a KeyError, an empty messages list an IndexError, and
\* either ends the call.
RECURSIVE format_entries(_, _)
format_entries(entries, interactions) ==
    IF entries = <<>> THEN [status |-> "return", value |-> interactions, error |-> ""]
    ELSE LET interaction == Head(entries) IN
         IF "interactant" \notin DOMAIN interaction
              \/ "title" \notin DOMAIN interaction.interactant
              \/ "messages" \notin DOMAIN interaction
         THEN [status |-> "raise", value |-> <<>>, error |-> "KeyError"]
         ELSE IF interaction.messages = <<>>
         THEN [status |-> "raise", value |-> <<>>, error |-> "IndexError"]
         ELSE LET target_drug == interaction.interactant.title
                  message == interaction.messages[1]
              IN IF {"severity", "additiveEffect", "evidence", "message"} \subseteq DOMAIN message
                 THEN format_entries(Tail(entries),
                          Put(interactions, target_drug,
                              [severity |-> message.severity,
                               additiveEffect |-> message.additiveEffect,
                               evidence |-> message.evidence,
                               description |-> message.message]))
                 ELSE [status |-> "raise", value |-> <<>>, error |-> "KeyError"]

format_interactions(profile) ==
    IF "result" \notin DOMAIN profile \/ "data" \notin DOMAIN profile.result
    THEN [status |-> "return", value |-> <<>>, error |-> ""]
    ELSE LET data == profile.result.data IN
         IF "bnfInteractant" \notin DOMAIN data
              \/ "interactions" \notin DOMAIN data.bnfInteractant
         THEN [status |-> "return", value |-> <<>>, error |-> ""]
         ELSE format_entries(data.bnfInteractant.interactions, <<>>)

\* pydantic's validation of Interaction(...): severity and description are
\* required strings, so null is refused.
InteractionValid(details) ==
    details.severity # Null /\ details.description # Null

\* markdownify() of a description: the markup goes, the text stays.
markdownify(html) ==
    CASE html = "<p>bleeding risk</p>" -> "bleeding risk"
      [] OTHER -> html

\* Interaction.prompt
InteractionPrompt(i) ==
    [heading |-> <<i.root_drug, i.drug_name>>, severity |-> i.severity,
     additiveEffect |-> i.additiveEffect, evidence |-> i.evidence,
     description |-> markdownify(i.description)]

PromptHeader == "The following interactions were found:\n====\n"

\* InteractionList.prompt: the header, then every interaction's own prompt
\* (no_match is never set, so nothing follows).
InteractionListPrompt(interactions) ==
    [header |-> PromptHeader,
     body |-> [k \in 1..Len(interactions) |-> InteractionPrompt(interactions[k])]]

\* slug_map: drug -> resolve_drug_interactions(drug), in list order.
RECURSIVE slug_map(_, _)
slug_map(drug_list, acc) ==
    IF drug_list = <<>> THEN acc
    ELSE slug_map(Tail(drug_list),
             Put(acc, Head(drug_list),
                 resolve_drug_interactions(Head(drug_list), synonyms, bnf_interactions,
                                           DEFAULT_THRESHOLD).value))

\* The (drug, slug) pairs in the order the two nested loops visit them.
RECURSIVE SlugPairs(_)
SlugPairs(m) ==
    IF m = <<>> THEN <<>>
    ELSE [k \in 1..Len(m[1].value) |-> <<m[1].key, m[1].value[k]>>] \o SlugPairs(Tail(m))

\* Faulty variant: every target of a loaded record is recorded, queried or not.
RECURSIVE record_targets_NoFilter(_, _, _, _)
record_targets_NoFilter(formatted, drug_name, drug_list, st) ==
    IF formatted = <<>> THEN st
    ELSE LET target_drug == formatted[1].key
             details == formatted[1].value
         IN IF InteractionValid(details)
            THEN record_targets_NoFilter(Tail(formatted), drug_name, drug_list,
                     [st EXCEPT !.all_interactions = Append(@,
                         [root_drug |-> drug_name, drug_name |-> target_drug,
                          severity |-> details.severity,
                          additiveEffect |-> details.additiveEffect,
                          evidence |-> details.evidence,
                          description |-> details.description])])
            ELSE [st EXCEPT !.status = "raise", !.error = "ValidationError"]

\* The inner loop over formatted.items(): a record is built for every target
\* that, lowercased, is among the lowercased names of drug_list.
RECURSIVE record_targets(_, _, _, _)
record_targets(formatted, drug_name, drug_list, st) ==
    IF formatted = <<>> THEN st
    ELSE LET target_drug == formatted[1].key
             details == formatted[1].value
         IN IF Lower(target_drug) \in {Lower(d) : d \in Range(drug_list)}
            THEN IF InteractionValid(details)
                 THEN record_targets(Tail(formatted), drug_name, drug_list,
                          [st EXCEPT !.all_interactions = Append(@,
                              [root_drug |-> drug_name, drug_name |-> target_drug,
                               severity |-> details.severity,
                               additiveEffect |-> details.additiveEffect,
                               evidence |-> details.evidence,
                               description |-> details.description])])
                 ELSE [st EXCEPT !.status = "raise", !.error = "ValidationError"]
            ELSE record_targets(Tail(formatted), drug_name, drug_list, st)

\* Faulty variant: a missing file ends the call instead of being skipped.
RECURSIVE gather_RaiseOnMissing(_, _, _)
gather_RaiseOnMissing(pairs, drug_list, st) ==
    IF pairs = <<>> \/ st.status = "raise" THEN st
    ELSE LET drug_name == pairs[1][1]
             slug == pairs[1][2]
             st1 == [st EXCEPT !.loads = Append(@, slug)]
         IN IF ~interaction_files[slug].exists
            THEN [st1 EXCEPT !.status = "raise", !.error = "FileNotFoundError"]
            ELSE LET formatted == format_interactions(interaction_files[slug].json)
                 IN IF formatted.status = "raise"
                    THEN [st1 EXCEPT !.status = "raise", !.error = formatted.error]
                    ELSE gather_RaiseOnMissing(Tail(pairs), drug_list,
                                record_targets(formatted.value, drug_name, drug_list, st1))

\* The loop over the (drug, slug) pairs: open the slug's file (a missing file
\* is skipped), format it, record its targets. st.loads lists the slugs whose
\* file was opened or looked for.
RECURSIVE gather(_, _, _)
gather(pairs, drug_list, st) ==
    IF pairs = <<>> \/ st.status = "raise" THEN st
    ELSE LET drug_name == pairs[1][1]
             slug == pairs[1][2]
             st1 == [st EXCEPT !.loads = Append(@, slug)]
         IN IF ~interaction_files[slug].exists
            THEN gather(Tail(pairs), drug_list, st1)
            ELSE LET formatted == format_interactions(interaction_files[slug].json)
                 IN IF formatted.status = "raise"
                    THEN [st1 EXCEPT !.status = "raise", !.error = formatted.error]
                    ELSE gather(Tail(pairs), drug_list,
                                record_targets(formatted.value, drug_name, drug_list, st1))

\* bnf_drug_interactions_tool.execute
execute_interactions(drug_list) ==
    LET st == gather(SlugPairs(slug_map(drug_list, <<>>)), drug_list,
                     [status |-> "return", error |-> "", all_interactions |-> <<>>,
                      loads |-> <<>>])
    IN [called |-> TRUE, drug_list |-> drug_list, status |-> st.status, error |-> st.error,
        all_interactions |-> IF st.status = "return" THEN st.all_interactions ELSE <<>>,
        loads |-> st.loads,
        prompt |-> IF st.status = "return"
                   THEN InteractionListPrompt(st.all_interactions)
                   ELSE [header |-> "", body |-> <<>>]]

---------------------------------------------------------------------------
(* the profile tool *)

\* JSON values carry their type: null, a string (s, a text), an object (d, a
\* table from keys to values) or a list (l).
JNull == [t |-> "null", s |-> <<>>, d |-> <<>>, l |-> <<>>]
JStr(text) == [t |-> "str", s |-> text, d |-> <<>>, l |-> <<>>]
JDict(table) == [t |-> "dict", s |-> <<>>, d |-> table, l |-> <<>>]
JList(xs) == [t |-> "list", s |-> <<>>, d |-> <<>>, l |-> xs]

\* The outcome of evaluating an expression: a value, or the exception raised.
Ok(v) == [ok |-> TRUE, v |-> v, exc |-> ""]
Exc(kind) == [ok |-> FALSE, v |-> <<>>, exc |-> kind]

\* bool(j), as in `if self.drugAction:`
Truthy(j) ==
    CASE j.t = "null" -> FALSE
      [] j.t = "dict" -> j.d # <<>>
      [] j.t = "list" -> j.l # <<>>
      [] OTHER -> j.s # <<>>

\* j[k] with a string key: a KeyError on an object lacking k, a TypeError on
\* anything that is not an object.
Subscript(j, k) ==
    IF j.t = "dict"
    THEN IF Has(j.d, k) THEN Ok(Get(j.d, k)) ELSE Exc("KeyError")
    ELSE Exc("TypeError")

\* f"{j}" of a string or of None
Format(j) == IF j.t = "str" THEN j.s ELSE <<"None">>

\* f"{drug['contentFor']} {drug['content']}"
content_line(drug) ==
    LET content_for == Subscript(drug, "contentFor")
        content == Subscript(drug, "content")
    IN IF ~content_for.ok THEN content_for
       ELSE IF ~content.ok THEN content
       ELSE Ok(Format(content_for.v) \o <<" ">> \o Format(content.v))

\* DrugProfile.drug_content
drug_content(drug_dict) ==
    LET d == Subscript(drug_dict, "drugContent") IN
    IF ~d.ok THEN d
    ELSE IF d.v.t = "null" THEN Ok(<<>>)
    ELSE IF d.v.t # "dict" THEN Exc("AttributeError")
    ELSE LET content_for == IF Has(d.v.d, "contentFor") THEN Get(d.v.d, "contentFor")
                            ELSE JStr(<<>>)
             content == IF Has(d.v.d, "content") THEN Get(d.v.d, "content") ELSE JStr(<<>>)
         IN IF content_for.t = "str" /\ content.t = "str"
            THEN Ok(content_for.s \o content.s)
            ELSE Exc("TypeError")

\* "\n----\n".join(content) over the list of a drugClassContent
RECURSIVE join_lines(_, _)
join_lines(drugs, k) ==
    IF k > Len(drugs) THEN Ok(<<>>)
    ELSE LET line == content_line(drugs[k])
             rest == join_lines(drugs, k + 1)
         IN IF ~line.ok THEN line
            ELSE IF ~rest.ok THEN rest
            ELSE Ok(line.v \o (IF k < Len(drugs) THEN <<"\n----\n">> ELSE <<>>) \o rest.v)

\* DrugProfile.drug_class_content (drugClassContent is null, a list or an
\* object in every record considered)
drug_class_content(drug_dict) ==
    LET d == Subscript(drug_dict, "drugClassContent") IN
    IF ~d.ok THEN d
    ELSE IF d.v.t = "null" THEN Ok(<<>>)
    ELSE IF d.v.t = "list" THEN join_lines(d.v.l, 1)
    ELSE content_line(d.v)

\* markdownify of a text, fragment by fragment
markdownify_text(text) == [k \in 1..Len(text) |-> markdownify(text[k])]

\* One section of the prompt: drug_content, the rule, drug_class_content,
\* evaluated in that order; md says whether markdownify is applied.
section_text(section, md) ==
    LET a == drug_content(section)
        b == drug_class_content(section)
    IN IF ~a.ok THEN a
       ELSE IF ~b.ok THEN b
       ELSE Ok((IF md THEN markdownify_text(a.v) ELSE a.v) \o <<"\n----\n">>
               \o (IF md THEN markdownify_text(b.v) ELSE b.v))

\* Faulty variant: the summary also shows the pregnancy section.
DrugProfilePrompt_WithPregnancy(profile) ==
    LET action == IF Truthy(profile.drugAction) THEN section_text(profile.drugAction, FALSE)
                  ELSE Ok(<<>>)
        cautions == IF Truthy(profile.cautions) THEN section_text(profile.cautions, TRUE)
                    ELSE Ok(<<>>)
        side == IF Truthy(profile.sideEffects) THEN section_text(profile.sideEffects, TRUE)
                ELSE Ok(<<>>)
        preg == IF Truthy(profile.pregnancy) THEN section_text(profile.pregnancy, TRUE)
                ELSE Ok(<<>>)
    IN IF ~action.ok THEN action
       ELSE IF ~cautions.ok THEN cautions
       ELSE IF ~side.ok THEN side
       ELSE IF ~preg.ok THEN preg
       ELSE Ok(<<"BNF Drug Profile\n====\n", "Drug Name: ">> \o profile.title.s
               \o <<"\n====\n", "Drug Action: \n====\n">> \o action.v
               \o (IF Truthy(profile.cautions) THEN <<"Cautions: \n====\n">> ELSE <<>>)
               \o cautions.v
               \o (IF Truthy(profile.sideEffects) THEN <<"Side Effects: \n====\n">> ELSE <<>>)
               \o side.v
               \o (IF Truthy(profile.pregnancy) THEN <<"Pregnancy: \n====\n">> ELSE <<>>)
               \o preg.v)

\* DrugProfile.prompt
DrugProfilePrompt(profile) ==
    LET action == IF Truthy(profile.drugAction) THEN section_text(profile.drugAction, FALSE)
                  ELSE Ok(<<>>)
        cautions == IF Truthy(profile.cautions) THEN section_text(profile.cautions, TRUE)
                    ELSE Ok(<<>>)
        side == IF Truthy(profile.sideEffects) THEN section_text(profile.sideEffects, TRUE)
                ELSE Ok(<<>>)
    IN IF ~action.ok THEN action
       ELSE IF ~cautions.ok THEN cautions
       ELSE IF ~side.ok THEN side
       ELSE Ok(<<"BNF Drug Profile\n====\n", "Drug Name: ">> \o profile.title.s
               \o <<"\n====\n", "Drug Action: \n====\n">> \o action.v
               \o (IF Truthy(profile.cautions) THEN <<"Cautions: \n====\n">> ELSE <<>>)
               \o cautions.v
               \o (IF Truthy(profile.sideEffects) THEN <<"Side Effects: \n====\n">> ELSE <<>>)
               \o side.v)

\* The field types of DrugProfile: Optional[Union[Dict, List[Dict]]]
IsDictOrDicts(j) ==
    \/ j.t = "dict"
    \/ j.t = "list" /\ \A k \in 1..Len(j.l) : j.l[k].t = "dict"
IsOptionalSection(j) == j.t = "null" \/ IsDictOrDicts(j)

\* The sections modelled: the three the prompt shows, and pregnancy for the
\* sections it does not.
Sections == {"cautions", "drugAction", "pregnancy", "sideEffects"}

\* DrugProfile.model_validate: title, slug, primaryClassification and
\* secondaryClassifications are required; a section left out is None.
model_validate(raw) ==
    IF /\ raw.t = "dict"
       /\ {"title", "slug", "primaryClassification", "secondaryClassifications"}
             \subseteq KeySet(raw.d)
       /\ Get(raw.d, "title").t = "str"
       /\ Get(raw.d, "slug").t = "str"
       /\ Get(raw.d, "primaryClassification").t = "dict"
       /\ IsOptionalSection(Get(raw.d, "secondaryClassifications"))
       /\ \A k \in Sections \cap KeySet(raw.d) : IsOptionalSection(Get(raw.d, k))
    THEN Ok([k \in {"title", "slug", "primaryClassification", "secondaryClassifications"}
                     \cup Sections |->
                IF Has(raw.d, k) THEN Get(raw.d, k) ELSE JNull])
    ELSE Exc("ValidationError")

\* data["result"]["data"]["bnfDrug"]
raw_profile(data) ==
    LET result == Subscript(data, "result")
        inner == IF result.ok THEN Subscript(result.v, "data") ELSE result
    IN IF inner.ok THEN Subscript(inner.v, "bnfDrug") ELSE inner

NoMatchMsg == "Could not find a BNF profile slug match"
NoFileMsg == "No local JSON file found for slug"
NoParseMsg == "Could not parse BNF drug profile JSON for slug"

ToolOutcome(drug_name, status, error, message, slug, prompt) ==
    [called |-> TRUE, drug_name |-> drug_name, status |-> status, error |-> error,
     message |-> message, slug |-> slug, prompt |-> prompt]

\* return profile.prompt: an exception of the prompt leaves as it is.
render_profile(drug_name, slug, prompt) ==
    IF prompt.ok
    THEN ToolOutcome(drug_name, "return", "", "", slug, prompt.v)
    ELSE ToolOutcome(drug_name, "raise", prompt.exc, "", slug, <<>>)

\* The second try block: any exception of the subscripts or of the
\* validation becomes the ToolError "Could not parse ...".
parse_profile(drug_name, slug, raw) ==
    IF ~raw.ok
    THEN ToolOutcome(drug_name, "raise", "ToolError", NoParseMsg, slug, <<>>)
    ELSE IF ~model_validate(raw.v).ok
    THEN ToolOutcome(drug_name, "raise", "ToolError", NoParseMsg, slug, <<>>)
    ELSE render_profile(drug_name, slug, DrugProfilePrompt(model_validate(raw.v).v))

\* Faulty variant: a slug without a file gives an empty summary.
load_profile_EmptyOnMissing(drug_name, slug) ==
    IF slug.status = "raise"
    THEN ToolOutcome(drug_name, "raise", "ToolError", NoMatchMsg, <<>>, <<>>)
    ELSE IF ~profile_files[slug.value].exists
    THEN ToolOutcome(drug_name, "return", "", "", slug.value, <<>>)
    ELSE parse_profile(drug_name, slug.value, raw_profile(profile_files[slug.value].json))

\* The first try block, given the outcome of resolve_drug_profile: a ToolError
\* of the resolver leaves as it is, a missing file becomes the ToolError
\* "No local JSON file found ...".
load_profile(drug_name, slug) ==
    IF slug.status = "raise"
    THEN ToolOutcome(drug_name, "raise", "ToolError", NoMatchMsg, <<>>, <<>>)
    ELSE IF ~profile_files[slug.value].exists
    THEN ToolOutcome(drug_name, "raise", "ToolError", NoFileMsg, slug.value, <<>>)
    ELSE parse_profile(drug_name, slug.value, raw_profile(profile_files[slug.value].json))

\* bnf_drug_profiles_tool.execute: an error names the slug it is about.
execute_profile(drug_name) ==
    load_profile(drug_name,
                 resolve_drug_profile(drug_name, synonyms, bnf_profiles, DEFAULT_THRESHOLD))

---------------------------------------------------------------------------
(* the inputs of the resolvers *)

sA == <<"a">>
sB == <<"b">>
sX == <<"x">>
sZ == <<"z">>
sAwithB == <<"a", " ", "w", "i", "t", "h", " ", "b">>
slug1 == <<"1">>
slug2 == <<"2">>
slug3 == <<"3">>

\* a and b are ingredient names, x a brand name, z a name in no table.
Names ==
    { sA, <<" ", "A", " ">>, sX, <<" ", "X", " ">>, sZ, <<"Z">>,
      <<"z", ",", " ", "a">> }

SynTables ==
    { <<>>,
      <<KV(sX, sA)>>,
      <<KV(sX, <<"a", ",", " ", "b">>)>>,
      <<KV(sX, <<"b", ",", " ", "A">>), KV(sA, sB)>> }

ProfTables ==
    { <<>>,
      <<KV(sA, slug1)>>,
      <<KV(sA, slug1), KV(sB, slug2)>>,
      <<KV(sAwithB, slug3)>> }

IntTables ==
    { <<>>,
      <<KV(sA, slug1)>>,
      <<KV(sA, slug1), KV(sB, slug2)>>,
      <<KV(sA, slug1), KV(sB, slug1)>> }

\* The pairs the scorer is free on, and the scores it may give them: just
\* below, at and just above the threshold.
FuzzPairs == { <<sZ, sX>>, <<sZ, sA>>, <<sZ, sB>> }
ScoreVals == { DEFAULT_THRESHOLD - 1, DEFAULT_THRESHOLD, DEFAULT_THRESHOLD + 1 }

Orders(S) == { o \in [1..Cardinality(S) -> S] : \A x \in S : \E i \in DOMAIN o : o[i] = x }

NoCall == [name |-> <<>>, called |-> FALSE,
           profile |-> Raise(<<>>), interactions |-> Raise(<<>>)]

NoToolCall == [called |-> FALSE, drug_list |-> <<>>, status |-> "return", error |-> "",
               all_interactions |-> <<>>, loads |-> <<>>,
               prompt |-> [header |-> "", body |-> <<>>]]

NoProfileCall ==
    [called |-> FALSE, drug_name |-> <<>>, status |-> "return", error |-> "",
     message |-> "", slug |-> <<>>, prompt |-> <<>>]

\* The profile tool has not been called and has no files.
IdleProfile ==
    /\ profile_files = <<>>
    /\ profile_tool = NoProfileCall
    /\ profile_prev = NoProfileCall

NoCritiqueRun ==
    [pc |-> "idle", start |-> <<>>, critique_calls |-> <<>>, critique |-> <<>>,
     generate_calls |-> <<>>]

NoDateCall == [called |-> FALSE, given |-> FALSE, date |-> 0, result |-> <<>>]

NoFormatCall ==
    [called |-> FALSE, profile |-> EmptyObject,
     outcome |-> [status |-> "return", value |-> <<>>, error |-> ""]]


NoPromptRun == [called |-> FALSE, start |-> <<>>, status |-> "return", error |-> ""]

\* format_interactions and the prompt-building solver have not been called.
IdlePrompt ==
    /\ format_call = NoFormatCall
    /\ medical_data = [given |-> FALSE, list |-> <<>>]
    /\ prompt_run = NoPromptRun

\* No sample is being solved.
IdleSolvers ==
    /\ IdlePrompt
    /\ messages = <<>>
    /\ output = <<>>
    /\ critique_run = NoCritiqueRun
    /\ prescription_profile = <<>>
    /\ active = NoDateCall

Init ==
    /\ synonyms \in SynTables
    /\ bnf_profiles \in ProfTables
    /\ bnf_interactions \in IntTables
    /\ fuzz \in [FuzzPairs -> ScoreVals]
    /\ hash_order \in Orders(Values(bnf_interactions))
    /\ last = NoCall
    /\ prev = NoCall
    /\ interaction_files = <<>>
    /\ tool = NoToolCall
    /\ IdleProfile
    /\ IdleSolvers

\* A caller resolves the name n against both target tables, as the two tools
\* do for the names they are given (drug_tools.py lines 197 and 239).
Resolve(n) ==
    /\ last' = [name |-> n, called |-> TRUE,
                profile |-> resolve_drug_profile(n, synonyms, bnf_profiles, DEFAULT_THRESHOLD),
                interactions |-> resolve_drug_interactions(n, synonyms, bnf_interactions,
                                                           DEFAULT_THRESHOLD)]
    /\ prev' = last
    /\ UNCHANGED <<synonyms, bnf_profiles, bnf_interactions, fuzz, hash_order,
                   interaction_files, tool, profileVars, critiqueVars, dateVars, promptVars>>

Next == \E n \in Names : Resolve(n)

Spec == Init /\ [][Next]_vars

---------------------------------------------------------------------------
(* the inputs of the interactions tool *)

MaxDrugs == 2

\* a stands for aspirin and b for warfarin; x is a brand of both, z unknown.
AggNames == { sA, sB, <<"A">>, sX, sZ }
DrugLists == UNION { [1..n -> AggNames] : n \in 0..MaxDrugs }

tA == <<"A">>      \* the title "Aspirin" of an interactant
tB == sB
tC == <<"c">>      \* a drug outside every queried list

Msg(sev, text) ==
    [severity |-> sev, additiveEffect |-> FALSE, evidence |-> "Study", message |-> text]
Entry(title, msgs) == [interactant |-> [title |-> title], messages |-> msgs]
Record(entries) ==
    [exists |-> TRUE,
     json |-> [result |-> [data |-> [bnfInteractant |-> [interactions |-> entries]]]]]

WellFormedFiles ==
    { [exists |-> FALSE, json |-> EmptyObject],
      [exists |-> TRUE, json |-> EmptyObject],
      Record(<<Entry(tA, <<Msg("Severe", "<p>bleeding risk</p>")>>)>>),
      Record(<<Entry(tB, <<Msg("Moderate", "monitor")>>)>>),
      Record(<<Entry(tC, <<Msg("Severe", "monitor")>>)>>),
      Record(<<Entry(tA, <<Msg("Severe", "monitor")>>), Entry(tC, <<Msg("Mild", "monitor")>>)>>),
      Record(<<Entry(tA, <<Msg("Severe", "monitor")>>), Entry(tA, <<Msg("Mild", "monitor")>>)>>),
      Record(<<Entry(tA, <<Msg("Severe", "monitor"), Msg("Mild", "<p>bleeding risk</p>")>>)>>) }

MalformedFiles ==
    { Record(<<Entry(tA, <<Msg("Severe", "monitor")>>),
               [interactant |-> EmptyObject, messages |-> <<Msg("Severe", "monitor")>>]>>),
      Record(<<Entry(tA, <<>>)>>),
      Record(<<Entry(tA, <<[additiveEffect |-> FALSE, evidence |-> "Study",
                            message |-> "monitor"]>>)>>),
      Record(<<Entry(tB, <<Msg("Severe", "monitor")>>), Entry(tA, <<Msg(Null, "monitor")>>)>>) }

Files == WellFormedFiles \cup MalformedFiles

AggSynonyms == { <<KV(sX, <<"a", ",", " ", "b">>)>> }
AggInteractions ==
    { <<KV(sA, slug1)>>, <<KV(sA, slug1), KV(sB, slug2)>>, <<KV(sA, slug1), KV(sB, slug1)>> }
AggFuzz ==
    { [p \in FuzzPairs |-> IF p = <<sZ, sA>> THEN v ELSE DEFAULT_THRESHOLD - 1] :
        v \in {DEFAULT_THRESHOLD, DEFAULT_THRESHOLD + 1} }

InitAgg ==
    /\ synonyms \in AggSynonyms
    /\ bnf_profiles = <<>>
    /\ bnf_interactions \in AggInteractions
    /\ fuzz \in AggFuzz
    /\ hash_order \in Orders(Values(bnf_interactions))
    /\ last = NoCall
    /\ prev = NoCall
    /\ interaction_files \in [{slug1, slug2} -> Files]
    /\ tool = NoToolCall
    /\ IdleProfile
    /\ IdleSolvers

\* The interactions tool is called with a list of drug names. It keeps nothing
\* between calls, so a run makes one call.
Execute(drug_list) ==
    /\ ~tool.called
    /\ tool' = execute_interactions(drug_list)
    /\ UNCHANGED <<synonyms, bnf_profiles, bnf_interactions, fuzz, hash_order, last, prev,
                   interaction_files, profileVars, critiqueVars, dateVars, promptVars>>

NextAgg == \E drug_list \in DrugLists : Execute(drug_list)

SpecAgg == InitAgg /\ [][NextAgg]_vars

---------------------------------------------------------------------------
(* the inputs of the profile tool *)

Fragment1 == <<"<p>bleeding risk</p>">>
Fragment2 == <<"monitor">>
Content(content_for, content) ==
    JDict(<<KV("contentFor", JStr(content_for)), KV("content", JStr(content))>>)
Section(drugContent, drugClassContent) ==
    JDict(<<KV("drugContent", drugContent), KV("drugClassContent", drugClassContent)>>)

\* Sections of the shape the prompt expects: drugContent and drugClassContent
\* both present, each null or holding contentFor/content (drugContent may
\* lack either), drugClassContent an object or a list of objects.
OneGood == Section(Content(<<"aspirin">>, Fragment1), JNull)
GoodSections ==
    { OneGood,
      Section(JNull, JList(<<Content(<<"nsaids">>, Fragment2),
                             Content(<<"salicylates">>, Fragment1)>>)),
      Section(JDict(<<KV("content", JStr(Fragment2))>>), Content(<<"nsaids">>, Fragment1)) }

\* Sections that pass validation but not the shape the prompt expects.
OddSections ==
    { JDict(<<KV("drugClassContent", JNull)>>),
      JDict(<<KV("drugContent", JNull)>>),
      Section(JNull, JDict(<<KV("content", JStr(Fragment2))>>)),
      Section(JNull, JList(<<JDict(<<KV("contentFor", JStr(<<"nsaids">>))>>)>>)),
      JList(<<OneGood>>) }

\* Sections that fail validation.
InvalidSections == { JStr(Fragment2) }

BnfDrug(title, action, cautions, side, pregnancy) ==
    JDict(<<KV("title", JStr(title)), KV("slug", JStr(<<"aspirin">>)),
            KV("primaryClassification", JDict(<<KV("title", JStr(<<"analgesics">>))>>)),
            KV("secondaryClassifications", JNull),
            KV("drugAction", action), KV("cautions", cautions), KV("sideEffects", side),
            KV("pregnancy", pregnancy)>>)

ProfileFile(bnfDrug) ==
    [exists |-> TRUE,
     json |-> JDict(<<KV("result", JDict(<<KV("data", JDict(<<KV("bnfDrug", bnfDrug)>>))>>))>>)]

\* Records whose sections are absent or of the expected shape.
WellFormedProfiles ==
    { ProfileFile(BnfDrug(<<"Aspirin">>, a, OneGood, OneGood, p)) :
        a \in GoodSections \cup {JNull}, p \in {JNull, OneGood} }
    \cup { ProfileFile(BnfDrug(<<"Aspirin">>, OneGood, c, s, OneGood)) :
             c \in {JNull, JDict(<<>>)}, s \in (GoodSections \ {OneGood}) \cup {JNull} }

\* Records with one section of another shape, in each of the three places,
\* and records lacking result, bnfDrug or the title.
MalformedProfiles ==
    { ProfileFile(BnfDrug(<<"Aspirin">>, s, OneGood, OneGood, JNull)) :
        s \in OddSections \cup InvalidSections }
    \cup { ProfileFile(BnfDrug(<<"Aspirin">>, OneGood, s, OneGood, JNull)) :
        s \in OddSections \cup InvalidSections }
    \cup { ProfileFile(BnfDrug(<<"Aspirin">>, OneGood, OneGood, s, JNull)) :
        s \in OddSections \cup InvalidSections }
    \cup { [exists |-> TRUE, json |-> JDict(<<>>)],
           [exists |-> TRUE, json |-> JDict(<<KV("result", JDict(<<KV("data", JDict(<<>>))>>))>>)],
           ProfileFile(JDict(<<KV("slug", JStr(<<"aspirin">>)),
                               KV("primaryClassification", JDict(<<>>)),
                               KV("secondaryClassifications", JNull)>>)) }

NoProfileFile == [exists |-> FALSE, json |-> JNull]

ProfileFiles == {NoProfileFile} \cup WellFormedProfiles \cup MalformedProfiles

\* a and b have profiles, x is a brand of a, z resolves to nothing.
ProfNames == { sA, sB, <<" ", "X", " ">>, sZ }

InitProf ==
    /\ synonyms = <<KV(sX, sA)>>
    /\ bnf_profiles = <<KV(sA, slug1), KV(sB, slug2)>>
    /\ bnf_interactions = <<>>
    /\ fuzz = [p \in FuzzPairs |-> DEFAULT_THRESHOLD - 1]
    /\ hash_order = <<>>
    /\ last = NoCall
    /\ prev = NoCall
    /\ interaction_files = <<>>
    /\ tool = NoToolCall
    /\ profile_files \in [{slug1, slug2} -> ProfileFiles]
    /\ profile_tool = NoProfileCall
    /\ profile_prev = NoProfileCall
    /\ IdleSolvers

\* The profile tool is called with a drug name.
ExecuteProfile(drug_name) ==
    /\ profile_tool' = execute_profile(drug_name)
    /\ profile_prev' = profile_tool
    /\ UNCHANGED <<synonyms, bnf_profiles, bnf_interactions, fuzz, hash_order, last, prev,
                   interaction_files, tool, profile_files, critiqueVars, dateVars, promptVars>>

NextProf == \E drug_name \in ProfNames : ExecuteProfile(drug_name)

SpecProf == InitProf /\ [][NextProf]_vars

---------------------------------------------------------------------------
(* the critique solver *)

\* The two templates, cut at their one field ({smr}, {critique}).
CritiquePrefix == "DEFAULT_CRITIQUE_TEMPLATE up to 'SMR trace: '"
CritiqueSuffix == "DEFAULT_CRITIQUE_TEMPLATE from '***' on"
CompletionPrefix == "DEFAULT_CRITIQUE_COMPLETION_TEMPLATE up to '[Critique]: '"
CompletionSuffix == "DEFAULT_CRITIQUE_COMPLETION_TEMPLATE from '***' on"

ChatMessage(role, content) == [role |-> role, content |-> content]

\* '\n\n'.join([message.content for message in state.messages])
RECURSIVE model_reasoning(_)
model_reasoning(msgs) ==
    IF msgs = <<>> THEN <<>>
    ELSE IF Len(msgs) = 1 THEN msgs[1].content
    ELSE msgs[1].content \o <<"\n\n">> \o model_reasoning(Tail(msgs))

\* critique_templ.format(smr=model_reasoning, completion=...): the template
\* has no {completion} field.
critique_prompt(msgs, completion) ==
    <<CritiquePrefix>> \o model_reasoning(msgs) \o <<CritiqueSuffix>>

\* Faulty variant: the message holds the template without the critique.
critique_message_NoCritique(critique) ==
    ChatMessage("user", <<CompletionPrefix, CompletionSuffix>>)

\* ChatMessageUser(content=completion_templ.format(critique=critique.completion))
critique_message(critique) ==
    ChatMessage("user", <<CompletionPrefix>> \o critique \o <<CompletionSuffix>>)

FullyCorrect == <<"The original answer is fully correct">>
Critiques == { FullyCorrect, <<"The review misses the warfarin interaction">> }
Answers == { <<"**Flag:** Yes">>, <<"**Flag:** No">> }

MaxMessages == 3

\* The conversation the earlier solvers leave behind.
EarlierMessages ==
    { ChatMessage("system", <<"SYSTEM_MESSAGE">>),
      ChatMessage("user", <<"Patient Profile">>),
      ChatMessage("assistant", <<"**Flag:** Yes">>) }
Conversations == UNION { [1..n -> EarlierMessages] : n \in 0..MaxMessages }

\* The drug tools are not in use.
IdleDrugTools ==
    /\ synonyms = <<>>
    /\ bnf_profiles = <<>>
    /\ bnf_interactions = <<>>
    /\ fuzz = <<>>
    /\ hash_order = <<>>
    /\ last = NoCall
    /\ prev = NoCall
    /\ interaction_files = <<>>
    /\ tool = NoToolCall
    /\ IdleProfile

InitCritique ==
    /\ IdleDrugTools
    /\ IdlePrompt
    /\ messages \in Conversations
    /\ output \in Answers
    /\ critique_run = [NoCritiqueRun EXCEPT !.pc = "start", !.start = messages]
    /\ prescription_profile = <<>>
    /\ active = NoDateCall

\* 1) model.generate(...) returns the critique.
GenerateCritique(completion) ==
    /\ critique_run.pc = "start"
    /\ critique_run' = [critique_run EXCEPT
                           !.pc = "critiqued",
                           !.critique_calls = Append(@, critique_prompt(messages, output)),
                           !.critique = completion]
    /\ UNCHANGED <<drugToolVars, messages, output, dateVars, promptVars>>

\* 2) state.messages.append(ChatMessageUser(...))
AppendCritique ==
    /\ critique_run.pc = "critiqued"
    /\ messages' = Append(messages, critique_message(critique_run.critique))
    /\ critique_run' = [critique_run EXCEPT !.pc = "appended"]
    /\ UNCHANGED <<drugToolVars, output, dateVars, promptVars>>

\* 3) generate(state): the model answers the conversation; the answer is
\* appended and becomes the output, and solve returns.
Regenerate(answer) ==
    /\ critique_run.pc = "appended"
    /\ critique_run' = [critique_run EXCEPT !.pc = "done",
                                            !.generate_calls = Append(@, messages)]
    /\ messages' = Append(messages, ChatMessage("assistant", answer))
    /\ output' = answer
    /\ UNCHANGED <<drugToolVars, dateVars, promptVars>>

NextCritique ==
    \/ \E completion \in Critiques : GenerateCritique(completion)
    \/ AppendCritique
    \/ \E answer \in Answers : Regenerate(answer)

SpecCritique == InitCritique /\ [][NextCritique]_vars

---------------------------------------------------------------------------
(* active_at_date *)

SixMonths == 180

\* max((obj.date for obj in prescription_profile)) of a non-empty profile
MaxDate(events) ==
    CHOOSE d \in {events[i].date : i \in 1..Len(events)} :
        \A i \in 1..Len(events) : events[i].date <= d

\* [event for event in prescription_profile if event.date >= six_months_ago]
RECURSIVE filtered_profile(_, _)
filtered_profile(events, six_months_ago) ==
    IF events = <<>> THEN <<>>
    ELSE (IF Head(events).date >= six_months_ago THEN <<Head(events)>> ELSE <<>>)
         \o filtered_profile(Tail(events), six_months_ago)

\* active_at_date(prescription_profile, date); given = FALSE stands for
\* date = None.
active_at_date(events, given, date) ==
    IF ~given /\ events = <<>> THEN <<>>
    ELSE LET d == IF given THEN date ELSE MaxDate(events)
         IN filtered_profile(events, d - SixMonths)

MaxEvents == 3

\* Days: two dates 180 and 181 days before day 181, and the day after it.
Days == {0, 1, 181, 182}
PrescriptionProfiles ==
    UNION { { [i \in 1..n |-> [id |-> i, date |-> dates[i]]] : dates \in [1..n -> Days] } :
              n \in 0..MaxEvents }

InitDates ==
    /\ IdleDrugTools
    /\ IdlePrompt
    /\ messages = <<>>
    /\ output = <<>>
    /\ critique_run = NoCritiqueRun
    /\ prescription_profile \in PrescriptionProfiles
    /\ active = NoDateCall

\* active_at_date is called on the profile, with a date or without.
ActiveAtDate(given, date) ==
    /\ active' = [called |-> TRUE, given |-> given, date |-> date,
                  result |-> active_at_date(prescription_profile, given, date)]
    /\ UNCHANGED <<drugToolVars, critiqueVars, prescription_profile, promptVars>>

NextDates ==
    \/ ActiveAtDate(FALSE, 0)
    \/ \E date \in Days : ActiveAtDate(TRUE, date)

SpecDates == InitDates /\ [][NextDates]_vars

---------------------------------------------------------------------------
(* format_interactions on its own *)

MaxEntries == 3

\* What one element of "interactions" may be: a title listed with one
\* message or with two, another title, an entry without messages, an entry
\* whose interactant has no title.
EntryKinds ==
    { Entry(tA, <<Msg("Severe", "monitor")>>),
      Entry(tA, <<Msg("Mild", "<p>bleeding risk</p>"), Msg("Severe", "monitor")>>),
      Entry(tB, <<Msg("Moderate", "monitor")>>),
      Entry(tA, <<>>),
      [interactant |-> EmptyObject, messages |-> <<Msg("Severe", "monitor")>>] }

\* The records given: four that lack result, data, bnfInteractant or
\* interactions, and those with a list of entries.
FormatInputs ==
    { EmptyObject,
      [result |-> EmptyObject],
      [result |-> [data |-> EmptyObject]],
      [result |-> [data |-> [bnfInteractant |-> EmptyObject]]] }
    \cup { Record(entries).json : entries \in UNION { [1..n -> EntryKinds] : n \in 0..MaxEntries } }

InitFormat ==
    /\ IdleDrugTools
    /\ IdleSolvers

\* format_interactions is called on the JSON of a record.
FormatInteractions(profile) ==
    /\ format_call' = [called |-> TRUE, profile |-> profile,
                       outcome |-> format_interactions(profile)]
    /\ UNCHANGED <<drugToolVars, critiqueVars, dateVars, medical_data, prompt_run>>

NextFormat == \E profile \in FormatInputs : FormatInteractions(profile)

SpecFormat == InitFormat /\ [][NextFormat]_vars

---------------------------------------------------------------------------
(* process_prescription_information *)

\* The prompt of format_prescription_profile: the patient's header, then one
\* block per event of the consultation and per drug of the event.
RECURSIVE drug_blocks(_)
drug_blocks(drugs) ==
    IF drugs = <<>> THEN <<>>
    ELSE <<"- Drug Name: ", Head(drugs).name,
           "- Drug Quantity: ", ToString(Head(drugs).quantity)>>
         \o drug_blocks(Tail(drugs))

RECURSIVE event_blocks(_)
event_blocks(events) ==
    IF events = <<>> THEN <<>>
    ELSE <<"Prescription Event:", "- Prescription Date: ", ToString(Head(events).date),
           "Drugs:">>
         \o drug_blocks(Head(events).drugs)
         \o event_blocks(Tail(events))

format_prescription_profile(patient, consultation) ==
    <<"Patient Profile:",
      "- Patient Identifier: ", ToString(patient.patient_id),
      "- Patient Age: ", ToString(patient.age),
      "- Patient Gender: ", patient.gender,
      "Prescription Profile:">>
    \o event_blocks(consultation.prescription_profile)

\* The text of format_medical_data for a non-empty list.
RECURSIVE consultation_blocks(_)
consultation_blocks(events) ==
    IF events = <<>> THEN <<>>
    ELSE <<"Consultation Event: ", ToString(Head(events).date_of_consultation),
           "- GP Notes: ", Head(events).gp_notes,
           "- Blood Pressure: ",
           ToString(Head(events).blood_pressure.blood_pressure_systolic), "/",
           ToString(Head(events).blood_pressure.blood_pressure_diastolic),
           "- Unplanned Hospital Admissions: ",
           ToString(Head(events).unplanned_hospital_admissions),
           "- Deprivation Index (0 most deprived 10 least deprived): ",
           ToString(Head(events).deprivation_index),
           "- Serum Sodium: ", ToString(Head(events).serum_sodium),
           "- Haemoglobin: ", ToString(Head(events).haemoglobin),
           "- Oxygen Saturation: ", ToString(Head(events).oxygen_saturation),
           "- Heart Rate: ", ToString(Head(events).heart_rate)>>
         \o consultation_blocks(Tail(events))

\* `not patient.medical_data` holds of None and of the empty list.
format_medical_data(patient) ==
    IF ~patient.medical_data.given \/ patient.medical_data.list = <<>>
    THEN Exc("ValueError")
    ELSE Ok(consultation_blocks(patient.medical_data.list))

\* The content of the user message, line 126.
user_prompt(patient_info, consultation_info) ==
    patient_info \o consultation_info
    \o <<"MEDICAL_DATA_PROMPT", "FORMAT_RESPONSE_PROMPT", "USE_BROWSER_PROMPT",
         "USE_BNF_TOOL_PROMPT">>

\* Faulty variant: the system message is appended before the medical data is
\* formatted.
solve_AppendFirst(msgs, patient) ==
    LET consultation == [indicators |-> Null,
                         prescription_profile |->
                             active_at_date(patient.prescription_profile, FALSE, 0)]
        patient_info == format_prescription_profile(patient, consultation)
        consultation_info == format_medical_data(patient)
        with_system == Append(msgs, ChatMessage("system", <<"SYSTEM_MESSAGE">>))
    IN IF ~consultation_info.ok
       THEN [status |-> "raise", error |-> consultation_info.exc,
             messages |-> with_system]
       ELSE [status |-> "return", error |-> "",
             messages |-> Append(with_system,
                                 ChatMessage("user",
                                             user_prompt(patient_info,
                                                         consultation_info.v)))]

\* solve of process_prescription_information: the messages it leaves and how
\* it ends.
solve(msgs, patient) ==
    LET consultation == [indicators |-> Null,
                         prescription_profile |->
                             active_at_date(patient.prescription_profile, FALSE, 0)]
        patient_info == format_prescription_profile(patient, consultation)
        consultation_info == format_medical_data(patient)
    IN IF ~consultation_info.ok
       THEN [status |-> "raise", error |-> consultation_info.exc, messages |-> msgs]
       ELSE [status |-> "return", error |-> "",
             messages |->
                 Append(Append(msgs, ChatMessage("system", <<"SYSTEM_MESSAGE">>)),
                        ChatMessage("user",
                                    user_prompt(patient_info, consultation_info.v)))]

\* Profiles of the patient, each event of one drug: one event, a recent one
\* after an old one, three recent ones.
PromptProfiles ==
    LET PrescribedEvent(id, date) ==
            [id |-> id, date |-> date,
             drugs |-> <<[name |-> "warfarin", quantity |-> 28]>>]
    IN { <<PrescribedEvent(1, 181)>>,
         <<PrescribedEvent(1, 0), PrescribedEvent(2, 181)>>,
         <<PrescribedEvent(1, 1), PrescribedEvent(2, 181), PrescribedEvent(3, 182)>> }

MedicalConsulation(date, notes) ==
    [date_of_consultation |-> date, gp_notes |-> notes,
     blood_pressure |-> [blood_pressure_systolic |-> 120, blood_pressure_diastolic |-> 80],
     unplanned_hospital_admissions |-> 0, deprivation_index |-> 5,
     serum_sodium |-> 140, haemoglobin |-> 13, oxygen_saturation |-> 98,
     heart_rate |-> 70]

\* medical_data: None, the empty list, one consultation, two.
MedicalData ==
    { [given |-> FALSE, list |-> <<>>],
      [given |-> TRUE, list |-> <<>>],
      [given |-> TRUE, list |-> <<MedicalConsulation(181, "dizzy")>>],
      [given |-> TRUE, list |-> <<MedicalConsulation(1, "well"),
                                  MedicalConsulation(181, "dizzy")>>] }

\* state.metadata['patient_data']
PatientData ==
    [patient_id |-> 7, age |-> 81, gender |-> "female",
     prescription_profile |-> prescription_profile,
     medical_data |-> medical_data]

InitPrompt ==
    /\ IdleDrugTools
    /\ messages \in Conversations
    /\ output = <<>>
    /\ critique_run = NoCritiqueRun
    /\ prescription_profile \in PromptProfiles
    /\ active = NoDateCall
    /\ format_call = NoFormatCall
    /\ medical_data \in MedicalData
    /\ prompt_run = NoPromptRun

\* The solver runs on the sample, once.
Solve ==
    /\ ~prompt_run.called
    /\ LET end == solve(messages, PatientData) IN
          /\ messages' = end.messages
          /\ prompt_run' = [called |-> TRUE, start |-> messages,
                            status |-> end.status, error |-> end.error]
    /\ UNCHANGED <<drugToolVars, output, critique_run, dateVars, format_call,
                   medical_data>>

NextPrompt == Solve

SpecPrompt == InitPrompt /\ [][NextPrompt]_vars

---------------------------------------------------------------------------
(* Properties of the resolvers, for Spec *)

Events(tr) == {tr[i] : i \in DOMAIN tr}
FuzzyEvents(tr) == {e \in Events(tr) : e.op \in {"extractOne", "combined"}}
OnlyExactLookup(tr, table, name) ==
    /\ Len(tr) = 1
    /\ tr[1].op = "in" /\ tr[1].table = table /\ tr[1].query = name /\ tr[1].found

\* C1: a name whose normalized form is a key of the target table resolves to
\* that key's slug (profile) or to the one-element list of it (interactions);
\* the call does one dictionary test on the target table and nothing else
\* (no synonym lookup, no fuzzy search), and a repeated call gives the same
\* outcome.
C1_ExactMatchFirst ==
    last.called =>
        LET name == Normalize(last.name) IN
        /\ Has(bnf_profiles, name) =>
            /\ last.profile.status = "return"
            /\ last.profile.value = Get(bnf_profiles, name)
            /\ OnlyExactLookup(last.profile.trace, "profiles", name)
            /\ (prev.called /\ prev.name = last.name) => prev.profile = last.profile
        /\ Has(bnf_interactions, name) =>
            /\ last.interactions.status = "return"
            /\ last.interactions.value = <<Get(bnf_interactions, name)>>
            /\ OnlyExactLookup(last.interactions.trace, "interactions", name)
            /\ (prev.called /\ prev.name = last.name) => prev.interactions = last.interactions

\* C1 witness: a name that is a key of both target tables and of the synonym
\* table has been resolved twice.
C1_Witness ==
    /\ last.called /\ prev.called /\ prev.name = last.name
    /\ Has(bnf_profiles, Normalize(last.name))
    /\ Has(bnf_interactions, Normalize(last.name))
    /\ Has(synonyms, Normalize(last.name))

AllKeysBelow(name, t, threshold) ==
    /\ ~Has(t, name)
    /\ \A k \in KeySet(t) : Score(name, k) < threshold

\* C2 (as claimed): a name that is a key of neither the synonym table nor the
\* target table, and scores below the threshold against every key of both,
\* makes resolve_drug_profile raise and resolve_drug_interactions return the
\* empty list.
C2_FailFastVsBestEffort ==
    last.called =>
        LET name == Normalize(last.name) IN
        /\ (AllKeysBelow(name, synonyms, DEFAULT_THRESHOLD)
              /\ AllKeysBelow(name, bnf_profiles, DEFAULT_THRESHOLD))
            => last.profile.status = "raise"
        /\ (AllKeysBelow(name, synonyms, DEFAULT_THRESHOLD)
              /\ AllKeysBelow(name, bnf_interactions, DEFAULT_THRESHOLD))
            => (last.interactions.status = "return" /\ last.interactions.value = <<>>)

\* C3 (as claimed): every fuzzy search whose match a resolver accepts found a
\* key scoring strictly above the threshold, the combined-phrase search
\* included.
C3_ThresholdEverywhere ==
    last.called =>
        \A e \in FuzzyEvents(last.profile.trace) \cup FuzzyEvents(last.interactions.trace) :
            e.accepted => e.score > DEFAULT_THRESHOLD

\* The ingredient list a profile lookup works on, when the name is not itself
\* a key of the profile table.
ProfileIngredients(name) ==
    LET m == map_ingredients(name, synonyms, DEFAULT_THRESHOLD)
    IN IF m.isList THEN m.list ELSE <<m.str>>

MultiIngredient(name) ==
    /\ ~Has(bnf_profiles, name)
    /\ Len(ProfileIngredients(name)) >= 2

C5_PhraseIsIngredientNames ==
    (last.called /\ MultiIngredient(Normalize(last.name))) =>
        \A e \in Events(last.profile.trace) :
            e.op = "combined" =>
                e.query = Join(WithSep, ProfileIngredients(Normalize(last.name)))

\* The ingredient list an interaction lookup works on: the name itself when
\* it is a key of the interaction table, else the items the resolver iterates
\* over.
InteractionIngredients(name) ==
    IF Has(bnf_interactions, name) THEN <<name>>
    ELSE LET m == map_ingredients(name, synonyms, DEFAULT_THRESHOLD)
         IN IF m.isList THEN m.list ELSE Split(m.str, CommaSpace)

\* The slug an ingredient resolves to on its own (exactly, or by its best key
\* when that scores above the threshold): a set of one slug, or of none.
InteractionSlugOf(ingredient) ==
    LET n == Normalize(ingredient)
        best == extractOne(n, Keys(bnf_interactions))
    IN IF Has(bnf_interactions, n) THEN {Get(bnf_interactions, n)}
       ELSE IF best.found /\ best.score > DEFAULT_THRESHOLD
            THEN {Get(bnf_interactions, best.key)}
            ELSE {}

NoDuplicates(xs) == \A i, j \in DOMAIN xs : xs[i] = xs[j] => i = j

SameOutcome(o1, o2) == o1.status = o2.status /\ o1.value = o2.value

\* C9: two names that differ only in letter case and surrounding whitespace
\* resolve alike, in both resolvers; with synonyms {x: a} and profiles
\* {a: 1}, " X " resolves to 1.
C9_CaseAndWhitespaceInvariant ==
    /\ (last.called /\ prev.called /\ Normalize(prev.name) = Normalize(last.name)) =>
        /\ SameOutcome(prev.profile, last.profile)
        /\ SameOutcome(prev.interactions, last.interactions)
    /\ (last.called /\ last.name = <<" ", "X", " ">>
          /\ synonyms = <<KV(sX, sA)>> /\ bnf_profiles = <<KV(sA, slug1)>>) =>
        (last.profile.status = "return" /\ last.profile.value = slug1)

\* C9 witness: " X " was resolved through the synonym table right after x.
C9_Witness ==
    /\ last.called /\ prev.called
    /\ prev.name = sX /\ last.name = <<" ", "X", " ">>
    /\ synonyms = <<KV(sX, sA)>> /\ bnf_profiles = <<KV(sA, slug1)>>
    /\ last.profile.status = "return"

\* C17 (as claimed): a name that neither is a synonym key nor has a synonym
\* key scoring above the threshold is carried on unchanged as one ingredient
\* by both resolvers, a name holding ", " included: each resolver ends as the
\* lookup of that one ingredient in its target table does.
C17_FallbackIsOneIngredient ==
    last.called =>
        LET name == Normalize(last.name)
            m == map_ingredients(name, synonyms, DEFAULT_THRESHOLD)
        IN ~m.isList =>
            /\ m.str = name
            /\ ~Has(bnf_profiles, name) =>
                 SameOutcome(last.profile,
                             ingredient_to_bnf_profile(name, bnf_profiles, DEFAULT_THRESHOLD))
            /\ ~Has(bnf_interactions, name) =>
                 last.interactions.value =
                     all_slugs(<<name>>, bnf_interactions, DEFAULT_THRESHOLD).slugs

\* C20: a slug returned by resolve_drug_profile is a value of the profile
\* table and every slug returned by resolve_drug_interactions is a value of
\* the interaction table; no name, ingredient or joined phrase is returned.
C20_SlugsAreTableValues ==
    last.called =>
        /\ last.profile.status = "return" => last.profile.value \in Values(bnf_profiles)
        /\ Range(last.interactions.value) \subseteq Values(bnf_interactions)

\* C20 witness: the profile came from the search of the joined phrase and
\* the interaction slugs from the ingredients of a brand name.
C20_Witness ==
    /\ last.called
    /\ last.profile.status = "return"
    /\ \E e \in Events(last.profile.trace) : e.op = "combined" /\ e.found
    /\ Len(last.interactions.value) = 2


---------------------------------------------------------------------------
(* Properties of the interactions tool, for SpecAgg *)

QueriedLower == {Lower(d) : d \in Range(tool.drug_list)}

\* C7: every record the aggregator returns has a target drug name that,
\* lowercased, equals a lowercased entry of the input list.
C7_TargetsAreQueried ==
    tool.called =>
        \A r \in Range(tool.all_interactions) : Lower(r.drug_name) \in QueriedLower

\* C7 witness: a record listing a queried drug in another letter case and a
\* drug outside the list was loaded; the call returned records.
C7_Witness ==
    /\ tool.called /\ tool.status = "return"
    /\ \E r \in Range(tool.all_interactions) : r.drug_name \notin Range(tool.drug_list)
    /\ \E s \in Range(tool.loads) :
          /\ interaction_files[s].exists
          /\ "result" \in DOMAIN interaction_files[s].json
          /\ \E e \in Range(interaction_files[s].json.result.data.bnfInteractant.interactions) :
                "title" \in DOMAIN e.interactant /\ e.interactant.title = tC

\* The titles a stored record lists, read off the JSON.
ListedTitles(file) ==
    IF file.exists /\ "result" \in DOMAIN file.json
    THEN { e.interactant.title :
             e \in { x \in Range(file.json.result.data.bnfInteractant.interactions) :
                       "title" \in DOMAIN x.interactant } }
    ELSE {}

\* The slugs of an input drug.
SlugsOf(d) ==
    Range(resolve_drug_interactions(d, synonyms, bnf_interactions, DEFAULT_THRESHOLD).value)

\* The (root, target) pairs present in the data for the queried list.
PairsInData ==
    { <<d, t>> \in Range(tool.drug_list) \X {tA, tB, tC} :
        /\ Lower(t) \in QueriedLower
        /\ \E s \in SlugsOf(d) : t \in ListedTitles(interaction_files[s]) }

EmittedPairs == { <<r.root_drug, r.drug_name>> : r \in Range(tool.all_interactions) }

AspirinWarfarinScenario ==
    /\ tool.drug_list = <<sA, sB>>
    /\ bnf_interactions = <<KV(sA, slug1), KV(sB, slug2)>>
    /\ interaction_files[slug2] = Record(<<Entry(tA, <<Msg("Severe", "<p>bleeding risk</p>")>>)>>)
    /\ ListedTitles(interaction_files[slug1]) \cap {tA, tB} = {}

\* C8 (as claimed): the pairs emitted are exactly the pairs present in the
\* data; for [a, b] where only b's record lists a, with severity Severe, the
\* output is the one record (root b, target a, Severe).
C8_ExactlyTheDataPairs ==
    tool.called =>
        /\ EmittedPairs = PairsInData
        /\ AspirinWarfarinScenario =>
              /\ Len(tool.all_interactions) = 1
              /\ tool.all_interactions[1].root_drug = sB
              /\ tool.all_interactions[1].drug_name = tA
              /\ tool.all_interactions[1].severity = "Severe"

\* C10 (as claimed): the interactions tool returns, whatever the names
\* resolve to and whatever the stored records hold.
C10_AlwaysReturns ==
    tool.called => tool.status = "return"

\* The (drug, slug) pairs of the call, and those whose slug has a stored file.
CallPairs == SlugPairs(slug_map(tool.drug_list, <<>>))
PresentPairs == Filter(CallPairs, {p \in Range(CallPairs) : interaction_files[p[2]].exists})
NoRecords == [status |-> "return", error |-> "", all_interactions |-> <<>>, loads |-> <<>>]

C15_NoInteractionsFraming ==
    (tool.called /\ tool.status = "return" /\ tool.all_interactions = <<>>) =>
        tool.prompt.header # PromptHeader

\* The slugs whose file the call opened, in order.
LoadedRecords == Filter(tool.loads, {s \in Range(tool.loads) : interaction_files[s].exists})

---------------------------------------------------------------------------
(* Properties of the profile tool, for SpecProf *)

\* C12: a call whose name resolves to a slug without a stored file ends in
\* the ToolError "No local JSON file found for slug" naming that slug, and
\* never returns a summary.
C12_MissingRecordFailsExplicitly ==
    profile_tool.called =>
        LET slug == resolve_drug_profile(profile_tool.drug_name, synonyms, bnf_profiles,
                                         DEFAULT_THRESHOLD)
        IN (slug.status = "return" /\ ~profile_files[slug.value].exists) =>
              /\ profile_tool.prompt = <<>>
              /\ profile_tool.status = "raise"
              /\ profile_tool.error = "ToolError"
              /\ profile_tool.message = NoFileMsg
              /\ profile_tool.slug = slug.value

\* C12 witness: a brand name resolved through the synonym table to a slug
\* without a file, and the call raised.
C12_Witness ==
    /\ profile_tool.called
    /\ profile_tool.drug_name = <<" ", "X", " ">>
    /\ profile_tool.slug = slug1
    /\ ~profile_files[slug1].exists
    /\ profile_tool.status = "raise"

\* The slug the latest call resolved its name to, and that slug's file.
ResolvedSlug(call) ==
    resolve_drug_profile(call.drug_name, synonyms, bnf_profiles, DEFAULT_THRESHOLD)
HasFile(call) ==
    /\ call.called
    /\ ResolvedSlug(call).status = "return"
    /\ profile_files[ResolvedSlug(call).value].exists
FileOf(call) == profile_files[ResolvedSlug(call).value]

\* C13 (as claimed): a call that finds a stored record of another structure
\* than expected (no result/data/bnfDrug, a record failing validation, a
\* drugAction, cautions or sideEffects section without drugContent,
\* drugClassContent, contentFor or content, or a section that is a list) ends
\* in the ToolError "Could not parse BNF drug profile JSON"; no exception of
\* another kind leaves the tool.
C13_MalformedIsToolError ==
    (HasFile(profile_tool) /\ FileOf(profile_tool) \in MalformedProfiles) =>
        /\ profile_tool.status = "raise"
        /\ profile_tool.error = "ToolError"
        /\ profile_tool.message = NoParseMsg

\* The validated record behind a call that returned.
ProfileOf(call) == model_validate(raw_profile(FileOf(call).json).v).v

\* C14: two calls that returned summaries of records with the same title,
\* drugAction, cautions and sideEffects returned the same text, whatever the
\* other sections hold.
C14_OnlyThreeSectionsShown ==
    (HasFile(profile_tool) /\ HasFile(profile_prev)
       /\ profile_tool.status = "return" /\ profile_prev.status = "return") =>
        LET p1 == ProfileOf(profile_prev)
            p2 == ProfileOf(profile_tool)
        IN (\A k \in {"title", "drugAction", "cautions", "sideEffects"} : p1[k] = p2[k])
              => profile_prev.prompt = profile_tool.prompt

\* C14 witness: two records that differ in the pregnancy section only were
\* both rendered, with cautions and side effects shown.
C14_Witness ==
    /\ HasFile(profile_tool) /\ HasFile(profile_prev)
    /\ profile_tool.status = "return" /\ profile_prev.status = "return"
    /\ LET p1 == ProfileOf(profile_prev)
           p2 == ProfileOf(profile_tool)
       IN /\ \A k \in {"title", "drugAction", "cautions", "sideEffects"} : p1[k] = p2[k]
          /\ p1.pregnancy # p2.pregnancy
          /\ Truthy(p1.cautions) /\ Truthy(p1.sideEffects) /\ Truthy(p1.drugAction)

---------------------------------------------------------------------------
(* Properties of the critique solver, for SpecCritique *)

\* The message m is a user message holding the critique c.
CarriesCritique(m, c) ==
    /\ m.role = "user"
    /\ Len(m.content) >= Len(c) + 1
    /\ SubSeq(m.content, 2, Len(c) + 1) = c

\* C18: a run asks for one critique, then appends one user message holding
\* that critique after the earlier messages, which stay as they were, then
\* calls generate once on that conversation and ends; this is so whatever the
\* critique says, "The original answer is fully correct" included.
C18_FixedExchange ==
    LET r == critique_run IN
    /\ r.pc = "start" => (r.critique_calls = <<>> /\ r.generate_calls = <<>>
                            /\ messages = r.start)
    /\ r.pc = "critiqued" => (Len(r.critique_calls) = 1 /\ r.generate_calls = <<>>
                                /\ messages = r.start)
    /\ r.pc = "appended" =>
          /\ Len(r.critique_calls) = 1 /\ r.generate_calls = <<>>
          /\ Len(messages) = Len(r.start) + 1
          /\ SubSeq(messages, 1, Len(r.start)) = r.start
          /\ CarriesCritique(messages[Len(messages)], r.critique)
    /\ r.pc = "done" =>
          /\ Len(r.critique_calls) = 1 /\ Len(r.generate_calls) = 1
          /\ Len(r.generate_calls[1]) = Len(r.start) + 1
          /\ SubSeq(r.generate_calls[1], 1, Len(r.start)) = r.start
          /\ CarriesCritique(r.generate_calls[1][Len(r.start) + 1], r.critique)
          /\ SubSeq(messages, 1, Len(r.start) + 1) = r.generate_calls[1]
          /\ ~ENABLED NextCritique

\* C18 witness: a run whose critique was "The original answer is fully
\* correct" has ended, after a conversation of two messages or more.
C18_Witness ==
    /\ critique_run.pc = "done"
    /\ critique_run.critique = FullyCorrect
    /\ Len(critique_run.start) >= 2
    /\ Len(critique_run.generate_calls) = 1

---------------------------------------------------------------------------
(* Properties of active_at_date, for SpecDates *)

\* The date the window ends at: the one given, else the latest event's.
WindowEnd ==
    IF active.given \/ prescription_profile = <<>> THEN active.date
    ELSE MaxDate(prescription_profile)

InWindow(event) ==
    /\ WindowEnd - SixMonths <= event.date
    /\ event.date <= WindowEnd

\* C19 (as claimed): the result is the events, in input order, dated within
\* the 180 days up to the date; without a date the window ends at the latest
\* event, so a non-empty profile gives a result holding its latest event, and
\* an empty profile gives the empty list.
C19_WithinSixMonthsBefore ==
    active.called =>
        /\ active.result =
             Filter(prescription_profile, {e \in Range(prescription_profile) : InWindow(e)})
        /\ (~active.given /\ prescription_profile # <<>>) =>
              \E e \in Range(active.result) : e.date = MaxDate(prescription_profile)
        /\ prescription_profile = <<>> => active.result = <<>>

---------------------------------------------------------------------------
(* Properties of format_interactions, for SpecFormat *)

\* The list under result.data.bnfInteractant.interactions, if the record has
\* one.
HasEntries(profile) ==
    /\ "result" \in DOMAIN profile
    /\ "data" \in DOMAIN profile.result
    /\ "bnfInteractant" \in DOMAIN profile.result.data
    /\ "interactions" \in DOMAIN profile.result.data.bnfInteractant
EntriesOf(profile) == profile.result.data.bnfInteractant.interactions

\* The last entry of the list with the given title.
LastListing(entries, title) ==
    entries[CHOOSE i \in 1..Len(entries) :
               /\ entries[i].interactant.title = title
               /\ \A j \in (i + 1)..Len(entries) : entries[j].interactant.title # title]

\* C21: a record without result, data, bnfInteractant or interactions gives
\* the empty mapping and no error; a mapping that is returned has one entry
\* for each title listed, built from the first message of the last listing of
\* that title, so that later messages and earlier listings do not show.
C21_OneEntryPerTitle ==
    format_call.called =>
        LET profile == format_call.profile
            out == format_call.outcome
        IN /\ ~HasEntries(profile) => (out.status = "return" /\ out.value = <<>>)
           /\ (HasEntries(profile) /\ out.status = "return") =>
                 /\ NoDuplicates(Keys(out.value))
                 /\ KeySet(out.value) =
                      {e.interactant.title : e \in Range(EntriesOf(profile))}
                 /\ \A k \in 1..Len(out.value) :
                       LET message == LastListing(EntriesOf(profile),
                                                  out.value[k].key).messages[1]
                       IN /\ out.value[k].value.severity = message.severity
                          /\ out.value[k].value.additiveEffect = message.additiveEffect
                          /\ out.value[k].value.evidence = message.evidence
                          /\ out.value[k].value.description = message.message

\* C21 witness: a title was listed twice, first with two messages and then
\* with one of another severity, and the mapping has its one entry.
C21_Witness ==
    /\ format_call.called
    /\ format_call.outcome.status = "return"
    /\ HasEntries(format_call.profile)
    /\ LET entries == EntriesOf(format_call.profile) IN
          /\ Len(entries) >= 2
          /\ entries[1].interactant.title = tA /\ Len(entries[1].messages) = 2
          /\ entries[2].interactant.title = tA /\ Len(entries[2].messages) = 1
          /\ entries[2].messages[1].severity # entries[1].messages[1].severity
    /\ Len(format_call.outcome.value) = 1

---------------------------------------------------------------------------
(* Properties of process_prescription_information, for SpecPrompt *)

NoMedicalDataGiven == ~medical_data.given \/ medical_data.list = <<>>

\* C22: a patient without medical data makes the solver raise ValueError
\* with state.messages exactly as it was; otherwise the solver returns and
\* state.messages is what it was, followed by the system message and then one
\* user message.
C22_UnchangedOnError ==
    prompt_run.called =>
        /\ NoMedicalDataGiven =>
              /\ prompt_run.status = "raise"
              /\ prompt_run.error = "ValueError"
              /\ messages = prompt_run.start
        /\ ~NoMedicalDataGiven =>
              /\ prompt_run.status = "return"
              /\ Len(messages) = Len(prompt_run.start) + 2
              /\ SubSeq(messages, 1, Len(prompt_run.start)) = prompt_run.start
              /\ messages[Len(messages) - 1] = ChatMessage("system", <<"SYSTEM_MESSAGE">>)
              /\ messages[Len(messages)].role = "user"

\* C22 witness: the solver raised on a patient with prescriptions and no
\* medical data, in a conversation that already had messages.
C22_Witness ==
    /\ prompt_run.called
    /\ prompt_run.status = "raise"
    /\ medical_data = [given |-> TRUE, list |-> <<>>]
    /\ Len(prescription_profile) >= 2
    /\ prompt_run.start # <<>>

===========================================================================
